---------------------------- MODULE Spec2Model ----------------------------
(***************************************************************************)
(* Model of the You_TweeT backend request handlers: the user controller    *)
(* (register, login, logout, refreshAccessToken, getUserChannelProfile),   *)
(* the video controller (publishAVideo, getSingleVideo, updateVideo,       *)
(* deleteVideo, togglePublishStatus) and the subscription controller       *)
(* (toggleSubscription).                                                   *)
(*                                                                         *)
(* Every handler is an async function: it runs to its next database or     *)
(* media call, is suspended there, and other requests run meanwhile.  A    *)
(* handler is therefore a sequence of steps, one per awaited call that     *)
(* reads or writes shared state; a request slot holds the handler's        *)
(* position (pc) and its local variables.                                  *)
(*                                                                         *)
(* Strings that the code converts or compares (usernames, e-mails,         *)
(* passwords, titles) are sequences of character codes.                    *)
(***************************************************************************)
EXTENDS Integers, Sequences, FiniteSets

VARIABLES
    users,          \* the users collection: a set of user documents
    userSerial,     \* number of user documents created so far (next _id)
    refreshToken,   \* users.refreshToken, per user _id (None when unset)
    watchHistory,   \* users.watchHistory, per user _id: a sequence of video ids
    tokSerial,      \* number of refresh tokens signed so far
    lastIssued,     \* per user _id, the refresh token signed last for it
    issued,         \* the refresh tokens returned to clients so far
    areq,           \* in-flight login / logout / refreshAccessToken requests
    loggedOut,      \* history: per user _id, a logout has completed and no
                    \* login has stored a token since
    rreq,           \* in-flight register requests
    subscriptions,  \* the subscriptions collection: a set of edge documents
    subSerial,      \* number of subscription documents created so far
    sreq,           \* in-flight toggleSubscription / getUserChannelProfile requests
    observed,       \* history: the toggleSubscription calls made back to back
    videos,         \* the videos collection: video _id -> document, or NoVideo
    vidSerial,      \* number of video documents created so far
    assets,         \* the media host: the set of asset ids it stores
    assetSerial,    \* number of assets uploaded so far
    fetches,        \* per video _id, the getSingleVideo calls that found it
    vreq,           \* in-flight video requests
    avatar,         \* users.avatar, per user _id: the public id of the asset
    coverImage,     \* users.coverImage, per user _id: a public id, or DefaultCover
    creq            \* in-flight account requests (profile reads and updates)

authVars == <<refreshToken, tokSerial, lastIssued, issued, areq, loggedOut>>
regVars == <<users, userSerial, rreq>>
subVars == <<subscriptions, subSerial, sreq, observed>>
videoVars == <<videos, vidSerial, assets, assetSerial, fetches, watchHistory, vreq>>
accountVars == <<avatar, coverImage, creq>>
vars == <<users, userSerial, refreshToken, watchHistory, tokSerial, lastIssued,
          issued, areq, loggedOut, rreq, subscriptions, subSerial, sreq, observed, videos,
          vidSerial,
          assets, assetSerial, fetches, vreq, avatar, coverImage, creq>>

----------------------------------------------------------------------------
(* Bounds of the model *)

MaxUsers == 2       \* user documents that can exist
MaxReq == 2         \* requests in flight at once, per controller
MaxTokens == 3      \* refresh tokens signed in one behaviour
MaxSubs == 3        \* subscription documents created in one behaviour
MaxVideos == 1      \* video documents created in one behaviour
MaxAssets == 3      \* media assets uploaded in one behaviour
MaxViews == 3       \* getSingleVideo calls counted per video
MaxAccountReq == 1  \* account requests in flight at once

UserIds == 1..MaxUsers
Reqs == 1..MaxReq
VideoIds == 1..MaxVideos
AccountReqs == 1..MaxAccountReq

----------------------------------------------------------------------------
(* Strings *)

\* character codes: ' ' = 32, '@' = 64, 'A' = 65, 'B' = 66, 'a' = 97, 'b' = 98
Blank == <<>>
Space == <<32>>

RECURSIVE toLowerCase(_)
toLowerCase(s) ==
    IF s = <<>> THEN <<>>
    ELSE LET c == Head(s)
         IN  <<IF c >= 65 /\ c <= 90 THEN c + 32 ELSE c>> \o toLowerCase(Tail(s))

RECURSIVE trimStart(_)
trimStart(s) ==
    IF s = <<>> THEN <<>>
    ELSE IF Head(s) = 32 THEN trimStart(Tail(s)) ELSE s

RECURSIVE trimEnd(_)
trimEnd(s) ==
    IF s = <<>> THEN <<>>
    ELSE IF s[Len(s)] = 32 THEN trimEnd(SubSeq(s, 1, Len(s) - 1)) ELSE s

trim(s) == trimEnd(trimStart(s))

\* the usernames, e-mails and passwords the seeded accounts use
NameOf(i) == <<96 + i>>
EmailOf(i) == <<96 + i, 64>>
PasswordOf(i) == <<96 + i, 96 + i>>

None == [none |-> TRUE]

\* a JSON boolean in a response body
JBool(b) == [bool |-> b]

\* a reference to a user document (an ObjectId) stored in another document
Oid(id) == [oid |-> id]

\* a request slot no handler is running in
Idle == [pc |-> "idle"]

\* bcrypt hash and compare of user.model.js (isPasswordMatched)
Hash(p) == [hash |-> p]
isPasswordMatched(doc, password) == doc.password = Hash(password)

UserDoc(id, username, email, password) ==
    [_id |-> id, username |-> username, email |-> email,
     password |-> Hash(password)]

\* User.findOne({$or: [...]}) and User.findById: the matching documents
findOneByIdentifier(coll, identifier) ==
    {u \in coll : u.username = identifier \/ u.email = identifier}
findById(coll, id) == {u \in coll : u._id = id}

----------------------------------------------------------------------------
(* The response envelope and the error a handler throws *)

\* new ApiResponse(statusCode, message, data, ...): the envelope's data is the
\* third argument; further arguments are not part of the envelope
ApiResponse(statusCode, message, data, extra) ==
    [statusCode |-> statusCode, message |-> message, data |-> data,
     success |-> statusCode < 400]

ApiError(statusCode, message) ==
    [statusCode |-> statusCode, message |-> message, data |-> None,
     success |-> FALSE]

NoResponse == [statusCode |-> 0, message |-> "", data |-> None, success |-> FALSE]

----------------------------------------------------------------------------
(* Auth: login, logout, refreshAccessToken (user controller) *)

OnlyAuth == UNCHANGED <<regVars, subVars, videoVars, accountVars>>

\* the locals of a login, logout or refreshAccessToken handler
AuthRequest(op, pc, uid, incoming, response) ==
    [op |-> op, pc |-> pc, uid |-> uid, incoming |-> incoming, tok |-> None,
     res |-> response]

\* tokens a client can present: none, garbage that fails jwt.verify, or any
\* refresh token a login or refresh response has returned
ForgedToken == [_id |-> 1, n |-> 0, sig |-> "bad"]
Presentable == {None, ForgedToken} \cup issued

\* user.generateRefreshToken(): jwt.sign of the user's _id; every signed token
\* is a new value
generateRefreshToken(uid, n) == [_id |-> uid, n |-> n, sig |-> "ok"]

\* jwt.verify(token, REFRESH_TOKEN_SECRET) succeeds
jwtVerifies(token) == token.sig = "ok"

\* requests that have passed their checks and have not signed their token yet
Signing == {r \in Reqs : areq[r].pc = "gen"}
CanStartSigner == tokSerial + Cardinality(Signing) < MaxTokens

AFinish(r, response) ==
    areq' = [areq EXCEPT ![r].pc = "done", ![r].res = response]

\* login, lines 97-117: validation, lookup, password check
LoginStart(r, identifier, password) ==
    /\ areq[r].pc = "idle"
    /\ CanStartSigner
    /\ LET found == findOneByIdentifier(users, identifier)
           fail(e) == [areq EXCEPT ![r] = AuthRequest("login", "done", 0, None, e)]
       IN  IF identifier = Blank \/ password = Blank
           THEN areq' = fail(ApiError(400, "All fields are required"))
           ELSE IF found = {}
           THEN areq' = fail(ApiError(404, "User not found register first"))
           ELSE LET duplicateUser == CHOOSE u \in found : TRUE
                IN  IF ~isPasswordMatched(duplicateUser, password)
                    THEN areq' = fail(ApiError(400, "Invalid credentials"))
                    ELSE areq' = [areq EXCEPT ![r] =
                            AuthRequest("login", "gen", duplicateUser._id, None,
                                        NoResponse)]
    /\ UNCHANGED <<refreshToken, tokSerial, lastIssued, issued>>
    /\ OnlyAuth

\* refreshAccessToken, line 189-192: the request is rejected
InvalidRefreshTokenNoCompare(found, incoming) == found = {}
InvalidRefreshToken(found, incoming) ==
    \/ found = {}
    \/ \E u \in found : incoming # refreshToken[u._id]

\* refreshAccessToken, lines 214-221: the catch block maps what the try block
\* threw to the status of the error it throws in its place
CatchStatus(isJsonWebTokenError) == IF isJsonWebTokenError THEN 403 ELSE 500

\* refreshAccessToken, lines 176-194 and 214-221
RefreshStart(r, incoming) ==
    /\ areq[r].pc = "idle"
    /\ CanStartSigner
    /\ LET fail(e) == [areq EXCEPT ![r] =
                          AuthRequest("refresh", "done", 0, incoming, e)]
       IN  IF incoming = None
           THEN areq' = fail(ApiError(401, "unauthorized request"))
           ELSE IF ~jwtVerifies(incoming)
           THEN areq' = fail(ApiError(CatchStatus(TRUE), "invalid signature"))
           ELSE IF InvalidRefreshToken(findById(users, incoming._id), incoming)
           THEN areq' = fail(ApiError(CatchStatus(FALSE), "Invalid refresh token"))
           ELSE areq' = [areq EXCEPT ![r] =
                   AuthRequest("refresh", "gen", incoming._id, incoming, NoResponse)]
    /\ UNCHANGED <<refreshToken, tokSerial, lastIssued, issued>>
    /\ OnlyAuth

\* generateAccessAndRefreshTokens, lines 14-17: load the user, sign both tokens
GenerateTokens(r) ==
    /\ areq[r].pc = "gen"
    /\ tokSerial < MaxTokens
    /\ LET t == generateRefreshToken(areq[r].uid, tokSerial + 1)
       IN  /\ tokSerial' = tokSerial + 1
           /\ lastIssued' = [lastIssued EXCEPT ![areq[r].uid] = t]
           /\ areq' = [areq EXCEPT ![r].pc = "save", ![r].tok = t]
    /\ UNCHANGED <<refreshToken, issued>>
    /\ OnlyAuth

\* generateAccessAndRefreshTokens, lines 20-23: user.refreshToken = refreshToken,
\* user.save(); then the caller's 200 response with the pair
SaveRefreshToken(r) ==
    /\ areq[r].pc = "save"
    /\ refreshToken' = [refreshToken EXCEPT ![areq[r].uid] = areq[r].tok]
    /\ AFinish(r, ApiResponse(200,
                   IF areq[r].op = "login" THEN "User Login Successfully"
                   ELSE "Access token refreshed",
                   [refreshToken |-> areq[r].tok], None))
    /\ issued' = issued \cup {areq[r].tok}
    /\ UNCHANGED <<tokSerial, lastIssued>>
    /\ OnlyAuth

\* logout, lines 151-173: $unset refreshToken of req.user; the auth middleware
\* has accepted an access token, so the account has logged in before
Logout(r, u) ==
    /\ areq[r].pc = "idle"
    /\ lastIssued[u] # None
    /\ refreshToken' = [refreshToken EXCEPT ![u] = None]
    /\ areq' = [areq EXCEPT ![r] =
           AuthRequest("logout", "done", u, None,
                       ApiResponse(200, "Logged out successfully", None, None))]
    /\ UNCHANGED <<tokSerial, lastIssued, issued>>
    /\ OnlyAuth

\* the response has been sent: the request is over
AuthRequestEnds(r) ==
    /\ areq[r].pc = "done"
    /\ areq' = [areq EXCEPT ![r] = Idle]
    /\ UNCHANGED <<refreshToken, tokSerial, lastIssued, issued>>
    /\ OnlyAuth

Identifiers == {Blank} \cup {NameOf(i) : i \in UserIds} \cup {EmailOf(1), <<122>>}
Passwords == {Blank, PasswordOf(1), PasswordOf(2)}

\* History kept beside the program: a completed logout marks its account, the
\* token stored by a login clears the mark
ObserveLogout(u) == loggedOut' = [loggedOut EXCEPT ![u] = TRUE]
ObserveSave(r) ==
    loggedOut' = IF areq[r].op = "login"
                 THEN [loggedOut EXCEPT ![areq[r].uid] = FALSE]
                 ELSE loggedOut

NextAuth ==
    \E r \in Reqs :
        \/ \E id \in Identifiers, p \in Passwords :
              LoginStart(r, id, p) /\ UNCHANGED loggedOut
        \/ \E t \in Presentable : RefreshStart(r, t) /\ UNCHANGED loggedOut
        \/ GenerateTokens(r) /\ UNCHANGED loggedOut
        \/ SaveRefreshToken(r) /\ ObserveSave(r)
        \/ \E u \in UserIds : Logout(r, u) /\ ObserveLogout(u)
        \/ AuthRequestEnds(r) /\ UNCHANGED loggedOut

----------------------------------------------------------------------------
(* Claims about the refresh-token lifecycle *)

\* the step that starts refreshAccessToken request r
RefreshStarts(r) ==
    areq[r].pc = "idle" /\ areq'[r].pc # "idle" /\ areq'[r].op = "refresh"

\* C1: a refreshAccessToken call whose presented token differs from the value
\* stored on the token's account when the handler reads it (no token at all, or
\* one issued before a later login or refresh) ends at once with an error,
\* signs no token and leaves every stored refresh token as it was.
C1_StaleTokenNeverRotates ==
    [][\A r \in Reqs :
          (/\ RefreshStarts(r)
           /\ \/ areq'[r].incoming = None
              \/ areq'[r].incoming # refreshToken[areq'[r].incoming._id])
          => /\ areq'[r].pc = "done"
             /\ ~areq'[r].res.success
             /\ areq'[r].tok = None
             /\ UNCHANGED <<refreshToken, tokSerial, issued, lastIssued>>]_vars

\* a token signed for an account, replaced by a later one, was presented and
\* rejected
C1_Witness ==
    \E r \in Reqs :
        /\ areq[r].pc = "done" /\ areq[r].op = "refresh"
        /\ areq[r].incoming \in issued
        /\ refreshToken[areq[r].incoming._id] \in issued
        /\ refreshToken[areq[r].incoming._id].n > areq[r].incoming.n
        /\ ~areq[r].res.success

\* C3 (as claimed): whenever no request holds a signed token it has not saved
\* yet, a user's stored refreshToken, if present, is the refresh token signed
\* most recently for that account.
C3_StoredIsLatestIssued ==
    (\A r \in Reqs : areq[r].pc # "save")
    => \A u \in UserIds :
          refreshToken[u] # None => refreshToken[u] = lastIssued[u]

\* a login for account u has passed its checks and has not answered yet
LoginInFlight(u) ==
    \E r \in Reqs :
        /\ areq[r].pc \in {"gen", "save"}
        /\ areq[r].op = "login"
        /\ areq[r].uid = u

\* C12 (as claimed): once a logout of an account has completed, the account's
\* stored refresh token is absent for as long as no login of that account has
\* stored a token or is under way, whatever login or refreshAccessToken call
\* was in flight when the logout ran.
C12_LogoutClearsUntilLogin ==
    \A u \in UserIds :
        (loggedOut[u] /\ ~LoginInFlight(u)) => refreshToken[u] = None

\* C6 (as claimed): a refreshAccessToken call rejected although its token passed
\* jwt.verify (the token is not the stored one, or names no user) fails with
\* 400, 401 or 403, never with 500.
C6_RejectedRefreshIsAuthError ==
    \A r \in Reqs :
        (/\ areq[r].pc = "done" /\ areq[r].op = "refresh"
         /\ areq[r].incoming # None
         /\ jwtVerifies(areq[r].incoming)
         /\ ~areq[r].res.success)
        => areq[r].res.statusCode \in {400, 401, 403}

----------------------------------------------------------------------------
(* Subscriptions: toggleSubscription (subscription controller) and         *)
(* getUserChannelProfile (user controller)                                 *)

OnlySub == UNCHANGED <<authVars, regVars, videoVars, accountVars>>

\* a route parameter that is no ObjectId
BadId == [oid |-> 0]
isValidObjectId(id) == id # BadId

\* the channel ids a client can send: the id of any user, or a malformed one
ChannelParams == {Oid(u) : u \in UserIds} \cup {BadId}

\* Subscription.create({subscriber, channel}): the schema of
\* subscription.model.js declares no unique index, so the insert always succeeds
SubscriptionCreate(coll, id, subscriber, channel) ==
    coll \cup {[_id |-> id, subscriber |-> subscriber, channel |-> channel]}

\* Subscription.findOne({subscriber, channel}): the matching documents
SubscriptionFind(coll, subscriber, channel) ==
    {e \in coll : e.subscriber = subscriber /\ e.channel = channel}

\* the locals of a toggleSubscription or getUserChannelProfile handler
SubRequest(op, pc, user, channel, subscription, response) ==
    [op |-> op, pc |-> pc, user |-> user, channel |-> channel,
     subscription |-> subscription, res |-> response]

Creating == {r \in Reqs : sreq[r].pc = "create"}

\* toggleSubscription, lines 13-27: validate the id, look the edge up
ToggleFind(r, user, channelId) ==
    /\ sreq[r].pc = "idle"
    /\ subSerial + Cardinality(Creating) < MaxSubs
    /\ IF ~isValidObjectId(channelId)
       THEN sreq' = [sreq EXCEPT ![r] =
               SubRequest("toggle", "done", user, channelId, 0,
                          ApiError(400, "Invalid channel id"))]
       ELSE LET found == SubscriptionFind(subscriptions, Oid(user), channelId)
            IN  IF found # {}
                THEN \E subscription \in found :
                        sreq' = [sreq EXCEPT ![r] =
                            SubRequest("toggle", "delete", user, channelId,
                                       subscription._id, NoResponse)]
                ELSE sreq' = [sreq EXCEPT ![r] =
                        SubRequest("toggle", "create", user, channelId, 0,
                                   NoResponse)]
    /\ UNCHANGED <<subscriptions, subSerial>>
    /\ OnlySub

\* toggleSubscription, lines 28-31: findByIdAndDelete, respond with data false
ToggleDelete(r) ==
    /\ sreq[r].pc = "delete"
    /\ subscriptions' = {e \in subscriptions : e._id # sreq[r].subscription}
    /\ sreq' = [sreq EXCEPT ![r].pc = "done",
                   ![r].res = ApiResponse(200, "Unsubscribed successfully",
                                          JBool(FALSE), None)]
    /\ UNCHANGED subSerial
    /\ OnlySub

\* toggleSubscription, lines 35-49: create the edge, respond with
\* new ApiResponse(200, "Subscribed successfully", newSubscription, true)
ToggleCreate(r) ==
    /\ sreq[r].pc = "create"
    /\ subSerial < MaxSubs
    /\ LET id == subSerial + 1
           newSubscription == [_id |-> id, subscriber |-> Oid(sreq[r].user),
                               channel |-> sreq[r].channel]
       IN  /\ subscriptions' = SubscriptionCreate(subscriptions, id,
                                   Oid(sreq[r].user), sreq[r].channel)
           /\ subSerial' = id
           /\ sreq' = [sreq EXCEPT ![r].pc = "done", ![r].subscription = id,
                          ![r].res = ApiResponse(200, "Subscribed successfully",
                                                 newSubscription, JBool(TRUE))]
    /\ OnlySub

\* $in: [req.user?._id, "$subscribedTo"] of the $addFields stage, lines 453-459
isSubscribedField(userId, subscribers, subscribedTo) == userId \in subscribedTo

\* getUserChannelProfile, lines 423-468: the aggregation over one user document
ChannelProfile(channel, userId) ==
    LET subscribers == {e \in subscriptions : e.channel = Oid(channel._id)}
        subscribedTo == {e \in subscriptions : e.subscriber = Oid(channel._id)}
    IN  [_id |-> channel._id,
         username |-> channel.username,
         email |-> channel.email,
         subscribersCount |-> Cardinality(subscribers),
         subscribedToCount |-> Cardinality(subscribedTo),
         isSubscribed |-> isSubscribedField(userId, subscribers, subscribedTo)]

\* getUserChannelProfile, lines 415-477
GetUserChannelProfile(r, user, username) ==
    /\ sreq[r].pc = "idle"
    /\ LET channel == {u \in users : u.username = username}
           answer(res) == [sreq EXCEPT ![r] =
                              SubRequest("profile", "done", user, username, 0, res)]
       IN  IF trim(username) = Blank
           THEN sreq' = answer(ApiError(400, "user name is missing"))
           ELSE IF channel = {}
           THEN sreq' = answer(ApiError(404, "channel does not exist"))
           ELSE \E c \in channel :
                   sreq' = answer(ApiResponse(200, "success",
                                      ChannelProfile(c, Oid(user)), None))
    /\ UNCHANGED <<subscriptions, subSerial>>
    /\ OnlySub

\* the response has been sent: the request is over
SubRequestEnds(r) ==
    /\ sreq[r].pc = "done"
    /\ sreq' = [sreq EXCEPT ![r] = Idle]
    /\ UNCHANGED <<subscriptions, subSerial>>
    /\ OnlySub

ProfileNames == {NameOf(i) : i \in UserIds} \cup {toLowerCase(<<90>>), Space}

\* a toggleSubscription handler is between its first and its last database call
Running == \E r \in Reqs : sreq[r].pc \in {"create", "delete"}

\* History of back-to-back calls, kept beside the program: a toggleSubscription
\* call that starts while no other is running is the first call of a pair
\* (the number of edges of its pair is recorded), or the second call when the
\* call before it was for the same subscriber and channel; a call that starts
\* while another is running ends the record.
ObserveToggle(user, channelId) ==
    IF ~isValidObjectId(channelId)
    THEN UNCHANGED observed
    ELSE IF Running
    THEN observed' = None
    ELSE IF /\ observed # None
            /\ observed.calls = 1
            /\ observed.user = user
            /\ observed.channel = channelId
    THEN observed' = [observed EXCEPT !.calls = 2]
    ELSE observed' =
            [user |-> user, channel |-> channelId, calls |-> 1,
             before |-> Cardinality(SubscriptionFind(subscriptions, Oid(user),
                                                     channelId))]

NextSub ==
    \E r \in Reqs :
        \/ \E u \in UserIds, c \in ChannelParams :
              ToggleFind(r, u, c) /\ ObserveToggle(u, c)
        \/ ToggleDelete(r) /\ UNCHANGED observed
        \/ ToggleCreate(r) /\ UNCHANGED observed
        \/ \E u \in UserIds, n \in ProfileNames :
              GetUserChannelProfile(r, u, n) /\ UNCHANGED observed
        \/ SubRequestEnds(r) /\ UNCHANGED observed

----------------------------------------------------------------------------
(* Claims about subscriptions *)

EdgesOf(subscriber, channel) ==
    {e \in subscriptions : e.subscriber = Oid(subscriber) /\ e.channel = Oid(channel)}

\* C2 (as claimed): in every reachable state the collection holds at most one
\* edge for each (subscriber, channel) pair.
C2_AtMostOneEdgePerPair ==
    \A s \in UserIds, c \in UserIds : Cardinality(EdgesOf(s, c)) <= 1

\* C9 (as claimed): the data of a successful toggleSubscription response is the
\* boolean subscribed-state after the call: false when the call deleted the
\* edge it found, true when it found none and created one.
C9_ReportsSubscribedState ==
    \A r \in Reqs :
        (sreq[r].pc = "done" /\ sreq[r].op = "toggle" /\ sreq[r].res.success)
        => sreq[r].res.data =
              JBool(sreq[r].res.message = "Subscribed successfully")

\* the step in which getUserChannelProfile request r answers with a profile
ProfileAnswered(r) ==
    /\ sreq[r].pc = "idle" /\ sreq'[r].pc = "done"
    /\ sreq'[r].op = "profile" /\ sreq'[r].res.success

\* C10 (as claimed): the profile returned for a user reports isSubscribed = true
\* exactly when an edge (requester -> that user) exists, subscribersCount = the
\* number of edges whose channel is that user, and subscribedToCount = the
\* number of edges whose subscriber is that user.
C10_ProfileMatchesEdges ==
    [][\A r \in Reqs :
          ProfileAnswered(r) =>
             LET d == sreq'[r].res.data
             IN  /\ d.isSubscribed = (EdgesOf(sreq'[r].user, d._id) # {})
                 /\ d.subscribersCount =
                       Cardinality({e \in subscriptions : e.channel = Oid(d._id)})
                 /\ d.subscribedToCount =
                       Cardinality({e \in subscriptions : e.subscriber = Oid(d._id)})]_vars

\* C11 (as claimed): when two toggleSubscription calls by one subscriber for
\* one channel have run one after the other, the second starting after the
\* first has answered and no other toggle running meanwhile, the pair has as
\* many edges as it had before the first call (none, when it had none).
C11_ToggleTwiceRestores ==
    (observed # None /\ observed.calls = 2 /\ ~Running)
    => Cardinality(SubscriptionFind(subscriptions, Oid(observed.user),
                                    observed.channel)) = observed.before

----------------------------------------------------------------------------
(* Videos: publishAVideo, getSingleVideo, updateVideo, deleteVideo and     *)
(* togglePublishStatus (video controller)                                  *)

OnlyVideo == UNCHANGED <<authVars, regVars, subVars, accountVars>>

NoVideo == None

\* a :videoId route parameter that is no ObjectId
BadVideoId == 0
VideoParams == VideoIds \cup {BadVideoId}
isValidVideoId(id) == id # BadVideoId

\* the cover image of a user registered without one is a fixed picture of
\* another site: its public id names no asset of the media host
DefaultCover == 0

\* the url the media host returns for an asset: its path segments, the last
\* one being <<public id, extension>>
AssetUrl(publicId) == <<"res.cloudinary.com", "upload", <<publicId, "jpg">>>>

\* url.split("/").pop().split(".")[0]
PublicIdOf(url) == url[Len(url)][1]

\* deleteFromCloudinary(publicId): the media host removes the asset, or the
\* call fails and the asset stays; neither outcome stops the caller
deleteFromCloudinary(store, publicId) == {store \ {publicId}, store}

\* await deleteFromCloudinary(publicId) rejects: the helper catches the media
\* host's error and returns, so a failed deletion is never thrown at the caller
DeleteRejectsOnFailure(publicId, after) == publicId \in after
DeleteRejects(publicId, after) == FALSE

\* asyncHandler answers for a handler whose awaited call rejected
MediaError == ApiError(500, "media deletion failed")

\* video.owner.toString() !== req.user._id.toString() is false
IsOwnerAnyone(video, user) == TRUE
IsOwner(video, user) == video.owner = user

\* the locals of a video handler; a response that carries the video document
\* carries it by its _id
VideoRequest(op, pc, user, video, response) ==
    [op |-> op, pc |-> pc, user |-> user, video |-> video, found |-> FALSE,
     title |-> Blank, description |-> Blank, thumbnail |-> Blank,
     isPublished |-> FALSE, res |-> response]

\* the handler returns: its locals are gone, the response is left
VFinish(r, response) ==
    vreq' = [vreq EXCEPT ![r] =
                [VideoRequest(vreq[r].op, "done", vreq[r].user, vreq[r].video,
                              response) EXCEPT !.found = vreq[r].found]]

Titles == {Blank, <<116>>, <<84>>}

\* publishAVideo, lines 88-133
PublishAVideo(r, user, title, description, hasFiles, uploaded, isPublished) ==
    /\ vreq[r].pc = "idle"
    /\ vidSerial < MaxVideos
    /\ assetSerial + 2 <= MaxAssets
    /\ LET answer(res) == [vreq EXCEPT ![r] =
                              VideoRequest("publish", "done", user, 0, res)]
           id == vidSerial + 1
           video == [owner |-> user, title |-> title, description |-> description,
                     thumbnail |-> AssetUrl(assetSerial + 1),
                     videoFile |-> AssetUrl(assetSerial + 2),
                     views |-> 0, isPublished |-> isPublished]
       IN  IF title = Blank \/ description = Blank
           THEN /\ vreq' = answer(ApiError(400, "All fields are required"))
                /\ UNCHANGED <<videos, vidSerial, assets, assetSerial>>
           ELSE IF ~hasFiles
           THEN /\ vreq' = answer(ApiError(400, "Please provide thumbnail and video"))
                /\ UNCHANGED <<videos, vidSerial, assets, assetSerial>>
           ELSE IF ~uploaded
           THEN /\ vreq' = answer(ApiError(400, "Error while uploading on cloudinary"))
                /\ UNCHANGED <<videos, vidSerial, assets, assetSerial>>
           ELSE /\ assets' = assets \cup {assetSerial + 1, assetSerial + 2}
                /\ assetSerial' = assetSerial + 2
                /\ videos' = [videos EXCEPT ![id] = video]
                /\ vidSerial' = id
                /\ vreq' = [vreq EXCEPT ![r] =
                       VideoRequest("publish", "done", user, id,
                           ApiResponse(200, "Video published successfully",
                                       id, None))]
    /\ UNCHANGED <<fetches, watchHistory>>
    /\ OnlyVideo

\* getSingleVideo, lines 171-173: the catch block replaces whatever the try
\* block threw
FailedToFetch(thrown) == ApiError(500, "Failed to fetch video")

\* getSingleVideo, lines 139-158: findByIdAndUpdate with $inc: {views: 1};
\* user is 0 when the request carries no authenticated user
GetSingleVideo(r, user, videoId) ==
    /\ vreq[r].pc = "idle"
    /\ LET answer(pc, found, res) ==
               [vreq EXCEPT ![r] =
                   [VideoRequest("get", pc, user, videoId, res)
                       EXCEPT !.found = found]]
       IN  IF ~isValidVideoId(videoId)
           THEN /\ vreq' = answer("done", FALSE, ApiError(400, "Invalid video id"))
                /\ UNCHANGED <<videos, fetches>>
           ELSE IF videos[videoId] = NoVideo
           THEN /\ vreq' = answer("done", FALSE,
                               FailedToFetch(ApiError(404, "Video not found")))
                /\ UNCHANGED <<videos, fetches>>
           ELSE /\ videos[videoId].views < MaxViews
                /\ videos' = [videos EXCEPT ![videoId].views = @ + 1]
                /\ fetches' = [fetches EXCEPT ![videoId] = @ + 1]
                /\ IF user = 0
                   THEN vreq' = answer("done", TRUE,
                           ApiResponse(200, "Video fetched successfully",
                                       videoId, None))
                   ELSE vreq' = answer("user", TRUE, NoResponse)
    /\ UNCHANGED <<vidSerial, assets, assetSerial, watchHistory>>
    /\ OnlyVideo

\* user.watchHistory.includes(videoId) on the loaded user document
HistoryIncludes(history, videoId) == \E i \in 1..Len(history) : history[i] = videoId

\* getSingleVideo, lines 159-160 and 166-170: load the viewer, test the history
GetLoadViewer(r) ==
    /\ vreq[r].pc = "user"
    /\ IF HistoryIncludes(watchHistory[vreq[r].user], vreq[r].video)
       THEN VFinish(r, ApiResponse(200, "Video fetched successfully",
                                   vreq[r].video, None))
       ELSE vreq' = [vreq EXCEPT ![r].pc = "push"]
    /\ UNCHANGED <<videos, vidSerial, assets, assetSerial, fetches, watchHistory>>
    /\ OnlyVideo

\* getSingleVideo, lines 161-162 and 166-170: watchHistory.push(videoId) and
\* user.save(), which sends the push to the stored array
GetSaveHistory(r) ==
    /\ vreq[r].pc = "push"
    /\ watchHistory' = [watchHistory EXCEPT ![vreq[r].user] =
                           Append(@, vreq[r].video)]
    /\ VFinish(r, ApiResponse(200, "Video fetched successfully",
                              vreq[r].video, None))
    /\ UNCHANGED <<videos, vidSerial, assets, assetSerial, fetches>>
    /\ OnlyVideo

\* lines 187-202, 238-253 and 275-290: the id, existence and ownership checks
\* the three owner-only handlers share; NoResponse when the request passes
OwnerChecks(user, videoId, invalidIdMessage) ==
    IF ~isValidVideoId(videoId) THEN ApiError(400, invalidIdMessage)
    ELSE IF videos[videoId] = NoVideo THEN ApiError(404, "Video not found")
    ELSE IF ~IsOwner(videos[videoId], user)
    THEN ApiError(403, "You are not authorized to update this video")
    ELSE NoResponse

\* updateVideo, lines 179-207
UpdateVideo(r, user, videoId, title, description, hasThumbnail) ==
    /\ vreq[r].pc = "idle"
    /\ hasThumbnail => assetSerial + Cardinality({q \in Reqs :
                           vreq[q].pc \in {"unthumb", "upload"}}) < MaxAssets
    /\ LET rejected == IF title = Blank \/ description = Blank
                       THEN ApiError(400, "All fields are required")
                       ELSE OwnerChecks(user, videoId, "Invalid video ID")
           request == VideoRequest("update", "done", user, videoId, rejected)
       IN  IF rejected # NoResponse
           THEN vreq' = [vreq EXCEPT ![r] = request]
           ELSE vreq' = [vreq EXCEPT ![r] =
                   [request EXCEPT
                       !.pc = IF hasThumbnail THEN "unthumb" ELSE "save",
                       !.found = TRUE,
                       !.title = title, !.description = description,
                       !.thumbnail = videos[videoId].thumbnail]]
    /\ UNCHANGED <<videos, vidSerial, assets, assetSerial, fetches, watchHistory>>
    /\ OnlyVideo

\* updateVideo, lines 208-210: delete the old thumbnail from the media host
UpdateDeleteThumbnail(r) ==
    /\ vreq[r].pc = "unthumb"
    /\ assets' \in deleteFromCloudinary(assets, PublicIdOf(vreq[r].thumbnail))
    /\ vreq' = [vreq EXCEPT ![r].pc = "upload"]
    /\ UNCHANGED <<videos, vidSerial, assetSerial, fetches, watchHistory>>
    /\ OnlyVideo

\* updateVideo, lines 211-221: upload the new thumbnail
UpdateUploadThumbnail(r, uploaded) ==
    /\ vreq[r].pc = "upload"
    /\ IF ~uploaded
       THEN /\ VFinish(r, ApiError(400, "Error while uploading on cloudinary"))
            /\ UNCHANGED <<assets, assetSerial>>
       ELSE /\ assetSerial < MaxAssets
            /\ assets' = assets \cup {assetSerial + 1}
            /\ assetSerial' = assetSerial + 1
            /\ vreq' = [vreq EXCEPT ![r].pc = "save",
                           ![r].thumbnail = AssetUrl(assetSerial + 1)]
    /\ UNCHANGED <<videos, vidSerial, fetches, watchHistory>>
    /\ OnlyVideo

\* updateVideo, lines 223-229: video.save() writes the changed fields; it
\* fails when the document has been deleted meanwhile
UpdateSave(r) ==
    /\ vreq[r].pc = "save"
    /\ IF videos[vreq[r].video] = NoVideo
       THEN /\ VFinish(r, ApiError(500, "Internal Server Error"))
            /\ UNCHANGED videos
       ELSE /\ videos' = [videos EXCEPT
                   ![vreq[r].video].title = vreq[r].title,
                   ![vreq[r].video].description = vreq[r].description,
                   ![vreq[r].video].thumbnail = vreq[r].thumbnail]
            /\ VFinish(r, ApiResponse(200, "Video updated successfully",
                                      vreq[r].video, None))
    /\ UNCHANGED <<vidSerial, assets, assetSerial, fetches, watchHistory>>
    /\ OnlyVideo

\* deleteVideo, lines 235-259
DeleteVideo(r, user, videoId) ==
    /\ vreq[r].pc = "idle"
    /\ LET rejected == OwnerChecks(user, videoId, "Invalid video id")
           request == VideoRequest("delete", "done", user, videoId, rejected)
       IN  IF rejected # NoResponse
           THEN vreq' = [vreq EXCEPT ![r] = request]
           ELSE vreq' = [vreq EXCEPT ![r] =
                   [request EXCEPT !.pc = "delthumb", !.found = TRUE,
                       !.thumbnail = videos[videoId].thumbnail,
                       !.title = videos[videoId].videoFile]]
    /\ UNCHANGED <<videos, vidSerial, assets, assetSerial, fetches, watchHistory>>
    /\ OnlyVideo

\* deleteVideo, line 260: delete the thumbnail from the media host
DeleteThumbnailAsset(r) ==
    /\ vreq[r].pc = "delthumb"
    /\ LET publicId == PublicIdOf(vreq[r].thumbnail)
       IN  \E after \in deleteFromCloudinary(assets, publicId) :
              /\ assets' = after
              /\ IF DeleteRejects(publicId, after)
                 THEN VFinish(r, MediaError)
                 ELSE vreq' = [vreq EXCEPT ![r].pc = "delfile"]
    /\ UNCHANGED <<videos, vidSerial, assetSerial, fetches, watchHistory>>
    /\ OnlyVideo

\* deleteVideo, line 261: delete the video file from the media host
DeleteVideoFileAsset(r) ==
    /\ vreq[r].pc = "delfile"
    /\ LET videoFilePublicId == PublicIdOf(vreq[r].title)
       IN  \E after \in deleteFromCloudinary(assets, videoFilePublicId) :
              /\ assets' = after
              /\ IF DeleteRejects(videoFilePublicId, after)
                 THEN VFinish(r, MediaError)
                 ELSE vreq' = [vreq EXCEPT ![r].pc = "delrecord"]
    /\ UNCHANGED <<videos, vidSerial, assetSerial, fetches, watchHistory>>
    /\ OnlyVideo

\* deleteVideo, lines 262-266: Video.findByIdAndDelete
DeleteVideoRecord(r) ==
    /\ vreq[r].pc = "delrecord"
    /\ videos' = [videos EXCEPT ![vreq[r].video] = NoVideo]
    /\ VFinish(r, ApiResponse(200, "Video deleted successfully", None, None))
    /\ UNCHANGED <<vidSerial, assets, assetSerial, fetches, watchHistory>>
    /\ OnlyVideo

\* togglePublishStatus, lines 272-291
TogglePublishStatus(r, user, videoId) ==
    /\ vreq[r].pc = "idle"
    /\ LET rejected == OwnerChecks(user, videoId, "Invalid video id")
           request == VideoRequest("togglePublish", "done", user, videoId, rejected)
       IN  IF rejected # NoResponse
           THEN vreq' = [vreq EXCEPT ![r] = request]
           ELSE vreq' = [vreq EXCEPT ![r] =
                   [request EXCEPT !.pc = "savepub", !.found = TRUE,
                       !.isPublished = ~videos[videoId].isPublished]]
    /\ UNCHANGED <<videos, vidSerial, assets, assetSerial, fetches, watchHistory>>
    /\ OnlyVideo

\* togglePublishStatus, lines 292-298: video.save()
TogglePublishSave(r) ==
    /\ vreq[r].pc = "savepub"
    /\ IF videos[vreq[r].video] = NoVideo
       THEN /\ VFinish(r, ApiError(500, "Internal Server Error"))
            /\ UNCHANGED videos
       ELSE /\ videos' = [videos EXCEPT
                   ![vreq[r].video].isPublished = vreq[r].isPublished]
            /\ VFinish(r, ApiResponse(200, "Video status updated successfully",
                                      vreq[r].video, None))
    /\ UNCHANGED <<vidSerial, assets, assetSerial, fetches, watchHistory>>
    /\ OnlyVideo

\* the response has been sent: the request is over
VideoRequestEnds(r) ==
    /\ vreq[r].pc = "done"
    /\ vreq' = [vreq EXCEPT ![r] = Idle]
    /\ UNCHANGED <<videos, vidSerial, assets, assetSerial, fetches, watchHistory>>
    /\ OnlyVideo

Descriptions == {Blank, <<100>>}

\* publishAVideo, deleteVideo and the end of a request: part of both behaviours
NextVideoCommon(r) ==
    \/ \E u \in UserIds, t \in Titles, d \in Descriptions,
          f \in BOOLEAN, up \in BOOLEAN, pub \in BOOLEAN :
          PublishAVideo(r, u, t, d, f, up, pub)
    \/ \E u \in UserIds, v \in VideoParams : DeleteVideo(r, u, v)
    \/ DeleteThumbnailAsset(r)
    \/ DeleteVideoFileAsset(r)
    \/ DeleteVideoRecord(r)
    \/ VideoRequestEnds(r)

\* viewers: videos are published, fetched and deleted
NextViews ==
    \E r \in Reqs :
        \/ NextVideoCommon(r)
        \/ \E u \in UserIds \cup {0}, v \in VideoParams : GetSingleVideo(r, u, v)
        \/ GetLoadViewer(r)
        \/ GetSaveHistory(r)

\* owners: videos are published, updated, toggled and deleted
NextOwner ==
    \E r \in Reqs :
        \/ NextVideoCommon(r)
        \/ \E u \in UserIds, v \in VideoParams, t \in Titles,
              d \in Descriptions, th \in BOOLEAN :
              UpdateVideo(r, u, v, t, d, th)
        \/ UpdateDeleteThumbnail(r)
        \/ \E up \in BOOLEAN : UpdateUploadThumbnail(r, up)
        \/ UpdateSave(r)
        \/ \E u \in UserIds, v \in VideoParams : TogglePublishStatus(r, u, v)
        \/ TogglePublishSave(r)

----------------------------------------------------------------------------
(* Claims about videos *)

RECURSIVE Occurrences(_, _)
Occurrences(history, videoId) ==
    IF history = <<>> THEN 0
    ELSE (IF Head(history) = videoId THEN 1 ELSE 0)
         + Occurrences(Tail(history), videoId)

\* C4 (as claimed): a video's views have grown by exactly 1 per getSingleVideo
\* call that found it, no watch history holds a video twice, and a viewer whose
\* getSingleVideo call has succeeded has the video in the history exactly once.
C4_ViewsCountedHistoryOnce ==
    \A v \in VideoIds :
        /\ videos[v] # NoVideo => videos[v].views = fetches[v]
        /\ \A u \in UserIds : Occurrences(watchHistory[u], v) <= 1
        /\ \A r \in Reqs :
              (/\ vreq[r].pc = "done" /\ vreq[r].op = "get"
               /\ vreq[r].video = v /\ vreq[r].user # 0
               /\ vreq[r].res.success)
              => Occurrences(watchHistory[vreq[r].user], v) = 1

OwnerOnlyOps == {"update", "delete", "togglePublish"}

\* the step in which request r, an updateVideo, deleteVideo or
\* togglePublishStatus call for an existing video by a user who is not its
\* owner, runs its checks
NonOwnerCall(r) ==
    /\ vreq[r].pc = "idle" /\ vreq'[r].pc # "idle"
    /\ vreq'[r].op \in OwnerOnlyOps
    /\ isValidVideoId(vreq'[r].video)
    /\ videos[vreq'[r].video] # NoVideo
    /\ videos[vreq'[r].video].owner # vreq'[r].user

\* the call has ended and has touched neither the collection nor the media host
RejectedUntouched(r) ==
    /\ vreq'[r].pc = "done"
    /\ ~vreq'[r].res.success
    /\ UNCHANGED <<videos, assets, assetSerial>>

\* C5 (as claimed): every such call by a non-owner fails with 403 and leaves
\* the video's record and both media assets unchanged.
C5_NonOwnerAlways403 ==
    [][\A r \in Reqs :
          NonOwnerCall(r) =>
             RejectedUntouched(r) /\ vreq'[r].res.statusCode = 403]_vars

\* C5 (amended): every such call by a non-owner ends in its first step with an
\* error and leaves the video's record and both media assets unchanged; the
\* status is 403, except that updateVideo with an empty title or description
\* fails with 400, its field validation coming before the ownership check.
C5_NonOwnerRejectedUntouched ==
    [][\A r \in Reqs :
          NonOwnerCall(r) =>
             /\ RejectedUntouched(r)
             /\ vreq'[r].res.statusCode =
                   (IF vreq'[r].res.message = "All fields are required"
                    THEN 400 ELSE 403)
             /\ vreq'[r].res.statusCode = 400 => vreq'[r].op = "update"]_vars

\* a non-owner's updateVideo and a non-owner's deleteVideo or
\* togglePublishStatus have both been rejected with 403, and the video and its
\* two assets are still there
C5_Witness ==
    \E r \in Reqs, q \in Reqs, v \in VideoIds :
        /\ videos[v] # NoVideo
        /\ vreq[r].pc = "done" /\ vreq[r].op = "update"
        /\ vreq[q].pc = "done" /\ vreq[q].op \in {"delete", "togglePublish"}
        /\ vreq[r].video = v /\ vreq[q].video = v
        /\ vreq[r].user # videos[v].owner /\ vreq[q].user # videos[v].owner
        /\ vreq[r].res.statusCode = 403 /\ vreq[q].res.statusCode = 403
        /\ {PublicIdOf(videos[v].thumbnail), PublicIdOf(videos[v].videoFile)}
              \subseteq assets

\* the handler of request r is inside deleteVideo, past the ownership check
Deleting(r) == vreq[r].pc \in {"delthumb", "delfile", "delrecord"}

\* C13 (as claimed): in deleteVideo by the owner the record is removed only
\* after the deletion of the thumbnail and then of the video file have both
\* been attempted, and whether or not the media host removed them the call
\* ends with status 200 and the record gone: no owner delete that passed its
\* checks ends otherwise, and each one does end.
C13_DeleteRemovesRecord ==
    /\ [][/\ \A v \in VideoIds :
                (videos[v] # NoVideo /\ videos'[v] = NoVideo)
                => \E r \in Reqs : vreq[r].pc = "delrecord" /\ vreq[r].video = v
          /\ \A r \in Reqs :
                /\ (vreq[r].pc # "delfile" /\ vreq'[r].pc = "delfile")
                   => vreq[r].pc = "delthumb"
                /\ (vreq[r].pc # "delrecord" /\ vreq'[r].pc = "delrecord")
                   => vreq[r].pc = "delfile"
          /\ \A r \in Reqs :
                (Deleting(r) /\ vreq'[r].pc = "done")
                => /\ vreq[r].pc = "delrecord"
                   /\ vreq'[r].res.success
                   /\ videos'[vreq[r].video] = NoVideo]_vars
    /\ \A r \in Reqs, v \in VideoIds :
          (Deleting(r) /\ vreq[r].video = v) ~> (videos[v] = NoVideo)

\* an owner's delete has answered 200 and the record is gone although the media
\* host removed nothing: it still stores every asset uploaded since the start
C13_Witness ==
    \E r \in Reqs :
        /\ vreq[r].pc = "done"
        /\ vreq[r].op = "delete"
        /\ vreq[r].res.success
        /\ videos[vreq[r].video] = NoVideo
        /\ assetSerial >= 2
        /\ (1..assetSerial) \subseteq assets

\* C7 (as claimed): getSingleVideo with a well-formed id that matches no video
\* fails with 404.
C7_MissingVideoIs404 ==
    \A r \in Reqs :
        (/\ vreq[r].pc = "done" /\ vreq[r].op = "get"
         /\ isValidVideoId(vreq[r].video)
         /\ ~vreq[r].found)
        => vreq[r].res.statusCode = 404

----------------------------------------------------------------------------
(* Registration: register (user controller) *)

OnlyReg == UNCHANGED <<authVars, subVars, videos, vidSerial, fetches,
                       watchHistory, vreq, creq>>

\* the locals of a register handler
RegisterRequest(pc, username, email, password, hasCover, response) ==
    [op |-> "register", pc |-> pc, username |-> username, email |-> email,
     password |-> password, hasCover |-> hasCover, res |-> response]

\* [username, email, password, fullName].some(field => field?.trim() === "")
SomeFieldBlank(fields) == \E i \in 1..Len(fields) : trim(fields[i]) = Blank

\* User.findOne({$or: [{username}, {email}]}), lines 43-45
DuplicateUser(coll, username, email) ==
    {u \in coll : u.username = username \/ u.email = email}

\* the unique indexes on username and on email of the user schema
\* (user.model.js): an insert that repeats either value is refused
UniqueIndexRefuses(coll, username, email) ==
    \E u \in coll : u.username = username \/ u.email = email

\* .select("-password -refreshToken")
Sanitized(doc) == [_id |-> doc._id, username |-> doc.username, email |-> doc.email]

\* register, lines 33-64: validation, duplicate lookup, avatar check
RegisterCheck(r, username, email, password, fullName, hasAvatar, hasCover) ==
    /\ rreq[r].pc = "idle"
    /\ LET answer(pc, res) == [rreq EXCEPT ![r] =
               RegisterRequest(pc, username, email, password, hasCover, res)]
       IN  IF SomeFieldBlank(<<username, email, password, fullName>>)
           THEN rreq' = answer("done", ApiError(400, "All fields are required"))
           ELSE IF DuplicateUser(users, username, email) # {}
           THEN rreq' = answer("done",
                               ApiError(400, "Username or email already exists"))
           ELSE IF ~hasAvatar
           THEN rreq' = answer("done", ApiError(400, "Please provide an avatar"))
           ELSE rreq' = answer("create", NoResponse)
    /\ UNCHANGED <<users, userSerial, assets, assetSerial, avatar, coverImage>>
    /\ OnlyReg

\* register, lines 66-93: upload the avatar (and the cover image), User.create
\* with the username lower-cased, read the user back, respond 201; an error of
\* User.create is not caught and reaches the client as a 500
RegisterCreate(r) ==
    /\ rreq[r].pc = "create"
    /\ LET uploads == IF rreq[r].hasCover THEN 2 ELSE 1
           username == toLowerCase(rreq[r].username)
           id == userSerial + 1
           user == UserDoc(id, username, rreq[r].email, rreq[r].password)
       IN  /\ assetSerial + uploads <= MaxAssets
           /\ assets' = assets \cup (assetSerial + 1 .. assetSerial + uploads)
           /\ assetSerial' = assetSerial + uploads
           /\ IF UniqueIndexRefuses(users, username, rreq[r].email)
              THEN /\ rreq' = [rreq EXCEPT ![r].pc = "done",
                                  ![r].res = ApiError(500, "E11000 duplicate key error")]
                   /\ UNCHANGED <<users, userSerial, avatar, coverImage>>
              ELSE /\ userSerial < MaxUsers
                   /\ users' = users \cup {user}
                   /\ userSerial' = id
                   /\ avatar' = [avatar EXCEPT ![id] = assetSerial + 1]
                   /\ coverImage' = [coverImage EXCEPT ![id] =
                          IF rreq[r].hasCover THEN assetSerial + 2
                          ELSE DefaultCover]
                   /\ rreq' = [rreq EXCEPT ![r].pc = "done",
                                  ![r].res = ApiResponse(201, "User created",
                                                         Sanitized(user), None)]
    /\ OnlyReg

\* the response has been sent: the request is over
RegisterRequestEnds(r) ==
    /\ rreq[r].pc = "done"
    /\ rreq' = [rreq EXCEPT ![r] = Idle]
    /\ UNCHANGED <<users, userSerial, assets, assetSerial, avatar, coverImage>>
    /\ OnlyReg

\* "a", "A", "b" and " "
RegisterNames == {NameOf(1), <<65>>, NameOf(2), Space}
RegisterEmails == {EmailOf(1), EmailOf(2)}
RegisterPasswords == {PasswordOf(1), Blank}

NextReg ==
    \E r \in Reqs :
        \/ \E n \in RegisterNames, e \in RegisterEmails, p \in RegisterPasswords,
              av \in BOOLEAN, cv \in BOOLEAN :
              RegisterCheck(r, n, e, p, <<70>>, av, cv)
        \/ RegisterCreate(r)
        \/ RegisterRequestEnds(r)

----------------------------------------------------------------------------
(* Claims about registration *)

\* the step in which register request r, all four fields filled in and an
\* avatar attached, runs its duplicate lookup while a stored user has the
\* username this call would store, or its e-mail
RegisterOfTakenName(r) ==
    /\ rreq[r].pc = "idle" /\ rreq'[r].pc # "idle"
    /\ rreq'[r].res.message # "All fields are required"
    /\ rreq'[r].res.message # "Please provide an avatar"
    /\ \E u \in users : \/ u.username = toLowerCase(rreq'[r].username)
                        \/ u.email = rreq'[r].email

\* C8 (as claimed): a register call whose username or e-mail is that of an
\* already registered user fails with 400 "Username or email already exists"
\* and creates no user, also when the username differs from the stored one
\* only in letter case; and no two users share a username or an e-mail.
C8_TakenNameIsConflict ==
    /\ [][\A r \in Reqs :
             RegisterOfTakenName(r) =>
                /\ rreq'[r].pc = "done"
                /\ rreq'[r].res = ApiError(400, "Username or email already exists")
                /\ users' = users]_vars
    /\ [](\A u \in users, w \in users :
             (u.username = w.username \/ u.email = w.email) => u = w)

----------------------------------------------------------------------------
(* Account: getCurrentUser, updateUserAccountDetails, updateUserAvatar and *)
(* updateUserCoverImage (user controller)                                  *)

OnlyAccount ==
    UNCHANGED <<authVars, userSerial, rreq, subVars, videos, vidSerial,
                fetches, watchHistory, vreq>>

\* the user document as the database holds it: refreshToken is a field of it
\* from a login until a logout unsets it
Document(doc, avatarId, coverId, token) ==
    IF token = None
    THEN [_id |-> doc._id, username |-> doc.username, email |-> doc.email,
          password |-> doc.password, avatar |-> AssetUrl(avatarId),
          coverImage |-> AssetUrl(coverId)]
    ELSE [_id |-> doc._id, username |-> doc.username, email |-> doc.email,
          password |-> doc.password, avatar |-> AssetUrl(avatarId),
          coverImage |-> AssetUrl(coverId), refreshToken |-> token]

StoredDocument(doc) ==
    Document(doc, avatar[doc._id], coverImage[doc._id], refreshToken[doc._id])

\* .select("-a -b"): the document without the excluded fields
Select(document, excluded) ==
    [f \in (DOMAIN document) \ excluded |-> document[f]]

\* the locals of an account handler
AccountRequest(op, pc, user, response) ==
    [op |-> op, pc |-> pc, user |-> user, email |-> Blank, username |-> Blank,
     publicId |-> DefaultCover, loaded |-> None, res |-> response]

\* the handler returns: its locals are gone, the response is left
CFinish(r, response) ==
    creq' = [creq EXCEPT ![r] =
                AccountRequest(creq[r].op, "done", creq[r].user, response)]

\* verifyJWT has accepted the access token of user u: u has logged in
Authenticated(u) == lastIssued[u] # None

\* handlers that will upload an asset and have not done so yet
Uploading ==
    {r \in Reqs : creq[r].pc \in {"avdelete", "avupload", "cvdelete", "cvupload"}}
CanStartUpload == assetSerial + Cardinality(Uploading) < MaxAssets

\* getCurrentUser, lines 261-271
GetCurrentUser(r, u) ==
    /\ creq[r].pc = "idle"
    /\ Authenticated(u)
    /\ LET found == findById(users, u)
           answer(res) == [creq EXCEPT ![r] =
                              AccountRequest("getCurrentUser", "done", u, res)]
       IN  IF found = {}
           THEN creq' = answer(ApiError(404, "User not found"))
           ELSE \E user \in found :
                   creq' = answer(ApiResponse(200, "User fetched successfully",
                              Select(StoredDocument(user),
                                     {"password", "refreshToken"}), None))
    /\ UNCHANGED <<users, assets, assetSerial, avatar, coverImage>>
    /\ OnlyAccount

\* updateUserAccountDetails, lines 273-289: validation, load the user
UpdateUserAccountDetails(r, u, email, fullName, username) ==
    /\ creq[r].pc = "idle"
    /\ Authenticated(u)
    /\ LET request(pc, res) ==
               [AccountRequest("updateUserAccountDetails", pc, u, res)
                   EXCEPT !.email = email, !.username = username]
       IN  IF ~fullName /\ email = Blank /\ username = Blank
           THEN creq' = [creq EXCEPT ![r] =
                   request("done", ApiError(400, "At least one field is required"))]
           ELSE IF findById(users, u) = {}
           THEN creq' = [creq EXCEPT ![r] =
                   request("done", ApiError(404, "User not found"))]
           ELSE \E user \in findById(users, u) :
                   creq' = [creq EXCEPT ![r] =
                       [request("email", NoResponse) EXCEPT !.loaded = user]]
    /\ UNCHANGED <<users, assets, assetSerial, avatar, coverImage>>
    /\ OnlyAccount

\* updateUserAccountDetails, lines 291-301: the e-mail goes into updateFields
\* when it is new and no other user has it
AccountCheckEmail(r) ==
    /\ creq[r].pc = "email"
    /\ LET email == creq[r].email
           user == creq[r].loaded
           existingEmailUser == {w \in users : w.email = email}
       IN  IF email # Blank /\ email # user.email
           THEN IF \E w \in existingEmailUser : w._id # user._id
                THEN CFinish(r, ApiError(400, "Email already in use"))
                ELSE creq' = [creq EXCEPT ![r].pc = "username"]
           ELSE creq' = [creq EXCEPT ![r].pc = "username", ![r].email = Blank]
    /\ UNCHANGED <<users, assets, assetSerial, avatar, coverImage>>
    /\ OnlyAccount

\* updateUserAccountDetails, lines 303-313: likewise for the username
AccountCheckUsername(r) ==
    /\ creq[r].pc = "username"
    /\ LET username == creq[r].username
           user == creq[r].loaded
           existingUsernameUser == {w \in users : w.username = username}
       IN  IF username # Blank /\ username # user.username
           THEN IF \E w \in existingUsernameUser : w._id # user._id
                THEN CFinish(r, ApiError(400, "Username already in use"))
                ELSE creq' = [creq EXCEPT ![r].pc = "update"]
           ELSE creq' = [creq EXCEPT ![r].pc = "update", ![r].username = Blank]
    /\ UNCHANGED <<users, assets, assetSerial, avatar, coverImage>>
    /\ OnlyAccount

\* updateUserAccountDetails, lines 315-335: findByIdAndUpdate with $set of
\* updateFields, answered with .select("-password -refreshToken")
AccountUpdate(r) ==
    /\ creq[r].pc = "update"
    /\ \E stored \in findById(users, creq[r].user) :
          LET updatedUser ==
                  [stored EXCEPT
                      !.email = IF creq[r].email = Blank THEN @
                                ELSE creq[r].email,
                      !.username = IF creq[r].username = Blank THEN @
                                   ELSE creq[r].username]
          IN  IF UniqueIndexRefuses(users \ {stored}, updatedUser.username,
                                    updatedUser.email)
              THEN /\ CFinish(r, ApiError(500, "E11000 duplicate key error"))
                   /\ UNCHANGED users
              ELSE /\ users' = (users \ {stored}) \cup {updatedUser}
                   /\ CFinish(r, ApiResponse(200, "User account details updated",
                                 Select(StoredDocument(updatedUser),
                                        {"password", "refreshToken"}), None))
    /\ UNCHANGED <<assets, assetSerial, avatar, coverImage>>
    /\ OnlyAccount

\* updateUserAvatar, lines 337-347: the file check, the public id of
\* req.user.avatar
UpdateUserAvatar(r, u, hasFile) ==
    /\ creq[r].pc = "idle"
    /\ Authenticated(u)
    /\ hasFile => CanStartUpload
    /\ LET request(pc, res) == AccountRequest("updateUserAvatar", pc, u, res)
       IN  IF ~hasFile
           THEN creq' = [creq EXCEPT ![r] =
                   request("done", ApiError(400, "Please provide an avatar"))]
           ELSE creq' = [creq EXCEPT ![r] =
                   [request("avdelete", NoResponse)
                       EXCEPT !.publicId = PublicIdOf(AssetUrl(avatar[u]))]]
    /\ UNCHANGED <<users, assets, assetSerial, avatar, coverImage>>
    /\ OnlyAccount

\* updateUserAvatar, line 349, and updateUserCoverImage, lines 390-393:
\* delete the old picture from the media host
DeleteOldPicture(r, at, next) ==
    /\ creq[r].pc = at
    /\ \E after \in deleteFromCloudinary(assets, creq[r].publicId) :
          /\ assets' = after
          /\ IF DeleteRejects(creq[r].publicId, after)
             THEN CFinish(r, MediaError)
             ELSE creq' = [creq EXCEPT ![r].pc = next]
    /\ UNCHANGED <<users, assetSerial, avatar, coverImage>>
    /\ OnlyAccount

\* updateUserAvatar, lines 351-355, and updateUserCoverImage, lines 395-399:
\* upload the new picture
UploadPicture(r, at, next, uploaded, message) ==
    /\ creq[r].pc = at
    /\ IF ~uploaded
       THEN /\ CFinish(r, ApiError(400, message))
            /\ UNCHANGED <<assets, assetSerial>>
       ELSE /\ assetSerial < MaxAssets
            /\ assets' = assets \cup {assetSerial + 1}
            /\ assetSerial' = assetSerial + 1
            /\ creq' = [creq EXCEPT ![r].pc = next,
                           ![r].publicId = assetSerial + 1]
    /\ UNCHANGED <<users, avatar, coverImage>>
    /\ OnlyAccount

AvatarDelete(r) == DeleteOldPicture(r, "avdelete", "avupload")

AvatarUpload(r, uploaded) ==
    UploadPicture(r, "avupload", "avsave", uploaded,
                  "Error while uploading on avatar")

\* updateUserAvatar, lines 356-375: findByIdAndUpdate with $set of avatar,
\* answered with .select("-password")
AvatarSave(r) ==
    /\ creq[r].pc = "avsave"
    /\ avatar' = [avatar EXCEPT ![creq[r].user] = creq[r].publicId]
    /\ \E stored \in findById(users, creq[r].user) :
          LET userUpdatedAvatar ==
                  Document(stored, creq[r].publicId, coverImage[stored._id],
                           refreshToken[stored._id])
          IN  CFinish(r, ApiResponse(200, "Avatar updated successfully",
                            Select(userUpdatedAvatar, {"password"}), None))
    /\ UNCHANGED <<users, assets, assetSerial, coverImage>>
    /\ OnlyAccount

\* updateUserCoverImage, lines 377-388: the file check, User.findById without
\* select; user.coverImage is a url for every registered user
UpdateUserCoverImage(r, u, hasFile) ==
    /\ creq[r].pc = "idle"
    /\ Authenticated(u)
    /\ hasFile => CanStartUpload
    /\ LET request(pc, res) == AccountRequest("updateUserCoverImage", pc, u, res)
       IN  IF ~hasFile
           THEN creq' = [creq EXCEPT ![r] =
                   request("done", ApiError(400, "Please provide cover image"))]
           ELSE IF findById(users, u) = {}
           THEN creq' = [creq EXCEPT ![r] =
                   request("done", ApiError(400, "User not found"))]
           ELSE \E user \in findById(users, u) :
                   creq' = [creq EXCEPT ![r] =
                       [request("cvdelete", NoResponse)
                           EXCEPT !.loaded = StoredDocument(user),
                                  !.publicId = PublicIdOf(AssetUrl(coverImage[u]))]]
    /\ UNCHANGED <<users, assets, assetSerial, avatar, coverImage>>
    /\ OnlyAccount

CoverDelete(r) == DeleteOldPicture(r, "cvdelete", "cvupload")

CoverUpload(r, uploaded) ==
    UploadPicture(r, "cvupload", "cvsave", uploaded,
                  "Error while uploading on cover image")

\* updateUserCoverImage, lines 401-412: user.coverImage = coverImage.url,
\* user.save(), answered with the loaded document itself
CoverSave(r) ==
    /\ creq[r].pc = "cvsave"
    /\ coverImage' = [coverImage EXCEPT ![creq[r].user] = creq[r].publicId]
    /\ LET user == [creq[r].loaded EXCEPT
                       !.coverImage = AssetUrl(creq[r].publicId)]
       IN  CFinish(r, ApiResponse(200, "user cover image updated successfully",
                         user, None))
    /\ UNCHANGED <<users, assets, assetSerial, avatar>>
    /\ OnlyAccount

\* the response has been sent: the request is over
AccountRequestEnds(r) ==
    /\ creq[r].pc = "done"
    /\ creq' = [creq EXCEPT ![r] = Idle]
    /\ UNCHANGED <<users, assets, assetSerial, avatar, coverImage>>
    /\ OnlyAccount

\* e-mails and usernames a client can send: none, one in use; for usernames
\* also a new one
AccountEmails == {Blank, EmailOf(1)}
AccountNames == {Blank, NameOf(2), <<122>>}

NextAccount ==
    \E r \in AccountReqs :
        \/ \E u \in UserIds : GetCurrentUser(r, u)
        \/ \E u \in UserIds, e \in AccountEmails, f \in BOOLEAN,
              n \in AccountNames : UpdateUserAccountDetails(r, u, e, f, n)
        \/ AccountCheckEmail(r)
        \/ AccountCheckUsername(r)
        \/ AccountUpdate(r)
        \/ \E u \in UserIds, f \in BOOLEAN : UpdateUserAvatar(r, u, f)
        \/ AvatarDelete(r)
        \/ \E up \in BOOLEAN : AvatarUpload(r, up)
        \/ AvatarSave(r)
        \/ \E u \in UserIds, f \in BOOLEAN : UpdateUserCoverImage(r, u, f)
        \/ CoverDelete(r)
        \/ \E up \in BOOLEAN : CoverUpload(r, up)
        \/ CoverSave(r)
        \/ AccountRequestEnds(r)

----------------------------------------------------------------------------
(* Claims about the user records in responses *)

PrivateFields == {"password", "refreshToken"}

\* C14 (as claimed): every successful response that carries a user record
\* carries it without its password field and without its refreshToken field.
C14_ResponsesOmitPrivateFields ==
    \A r \in Reqs :
        (creq[r].pc = "done" /\ creq[r].res.success)
        => PrivateFields \cap DOMAIN creq[r].res.data = {}

----------------------------------------------------------------------------
(* Initial states *)

\* the accounts the auth, subscription and video behaviours start with: users
\* registered earlier, each by one register call
SeededUsers == {UserDoc(i, NameOf(i), EmailOf(i), PasswordOf(i)) : i \in UserIds}

\* the avatar uploaded at the registration of seeded user u
SeededAvatar(u) == MaxAssets + u

InitRest ==
    /\ watchHistory = [u \in UserIds |-> <<>>]
    /\ areq = [r \in Reqs |-> Idle]
    /\ loggedOut = [u \in UserIds |-> FALSE]
    /\ rreq = [r \in Reqs |-> Idle]
    /\ subscriptions = {}
    /\ subSerial = 0
    /\ sreq = [r \in Reqs |-> Idle]
    /\ observed = None
    /\ videos = [v \in VideoIds |-> NoVideo]
    /\ vidSerial = 0
    /\ assetSerial = 0
    /\ fetches = [v \in VideoIds |-> 0]
    /\ vreq = [r \in Reqs |-> Idle]
    /\ creq = [r \in Reqs |-> Idle]

\* nobody has logged in
InitNoTokens ==
    /\ refreshToken = [u \in UserIds |-> None]
    /\ tokSerial = 0
    /\ lastIssued = [u \in UserIds |-> None]
    /\ issued = {}

InitEmpty ==
    /\ users = {}
    /\ userSerial = 0
    /\ assets = {}
    /\ avatar = [u \in UserIds |-> DefaultCover]
    /\ coverImage = [u \in UserIds |-> DefaultCover]
    /\ InitNoTokens
    /\ InitRest

\* the seeded users, each registered with an avatar and no cover image
InitUsers ==
    /\ users = SeededUsers
    /\ userSerial = MaxUsers
    /\ assets = {SeededAvatar(u) : u \in UserIds}
    /\ avatar = [u \in UserIds |-> SeededAvatar(u)]
    /\ coverImage = [u \in UserIds |-> DefaultCover]
    /\ InitRest

InitSeeded == InitUsers /\ InitNoTokens

\* every seeded user has logged in once
InitLoggedIn ==
    /\ InitUsers
    /\ refreshToken = [u \in UserIds |-> generateRefreshToken(u, u)]
    /\ tokSerial = MaxUsers
    /\ lastIssued = [u \in UserIds |-> generateRefreshToken(u, u)]
    /\ issued = {generateRefreshToken(u, u) : u \in UserIds}

SpecReg == InitEmpty /\ [][NextReg]_vars

SpecAuth == InitSeeded /\ [][NextAuth]_vars

SpecSub == InitSeeded /\ [][NextSub]_vars

SpecViews == InitSeeded /\ [][NextViews]_vars

SpecOwner == InitSeeded /\ [][NextOwner]_vars

SpecAccount == InitLoggedIn /\ [][NextAccount]_vars

\* an awaited media or database call of deleteVideo returns in the end
SpecDelete ==
    /\ InitSeeded
    /\ [][NextOwner]_vars
    /\ \A r \in Reqs :
          /\ WF_vars(DeleteThumbnailAsset(r))
          /\ WF_vars(DeleteVideoFileAsset(r))
          /\ WF_vars(DeleteVideoRecord(r))

=============================================================================
